---------------------------- MODULE Spec2Model ----------------------------
(***************************************************************************)
(* Model of the pwm command line tool (src/main.c) together with the       *)
(* libpwm operations it calls (pwm_open, pwm_execute, pwm_close).  The     *)
(* front end (parse_cli_args, handle_signal, main) is translated from      *)
(* main.c.  The library is not part of src/; its operations are modelled   *)
(* from the design document (Duty Encoder, Device Handle, Script           *)
(* Interpreter).                                                           *)
(*                                                                         *)
(* Numbers: an `unsigned int' is kept at its 32 bit width as a pair of 16  *)
(* bit halves [hi, lo]; a number typed on the command line is the triple   *)
(* [top, hi, lo] = top * 2^32 + hi * 2^16 + lo.                            *)
(***************************************************************************)
EXTENDS Integers, Sequences, FiniteSets, TLC

(* ------------------------------ bounds --------------------------------- *)

\* longest script enumerated exhaustively for --script
MaxScriptLen == 2

(* --------------------------- program constants ------------------------- *)

DEFAULT_PWM_FREQUENCY_HZ == 1000
DEFAULT_PWM_DURATION_MS == 250
EINVAL == 22
ENOMEM == 12
PWM_E_OK == 0

\* status codes of the library (pwm_status_t); numeric values are the
\* library's, modelled as distinct non-zero codes
E_DeviceNotFound == 1
E_PermissionDenied == 2
E_IoError == 3
E_InvalidDutyRange == 4
E_UnknownCommand == 5
E_Interrupted == 7

ErrorKinds ==
  {E_DeviceNotFound, E_PermissionDenied, E_IoError, E_InvalidDutyRange,
   E_UnknownCommand}

OpenFailures == {E_DeviceNotFound, E_PermissionDenied, E_IoError}

\* one second in the period unit (nanoseconds)
NSEC_PER_SEC == 1000000000

\* granularity of the polled wait of the D command, in milliseconds
PollTickMs == 50

NULL == <<"NULL">>

(* ------------------------- unsigned int words -------------------------- *)

HALF == 65536

Word(h, l) == [hi |-> h, lo |-> l]

\* the percent marker bit of a duty value
PWM_DUTY_PERCENT_FLAG == Word(32768, 0)

OrHalf(x, b) == IF b = 0 \/ (x \div b) % 2 = 1 THEN x ELSE x + b

\* w | f for a flag word f with at most one bit per half
WordOr(w, f) == Word(OrHalf(w.hi, f.hi), OrHalf(w.lo, f.lo))

\* strtoul(): the number typed, saturated to ULONG_MAX where unsigned long
\* is 32 bits wide
StrToUL(a, lp64) ==
  IF lp64 \/ a.top = 0 THEN a ELSE [top |-> 0, hi |-> HALF - 1, lo |-> HALF - 1]

\* the (unsigned int) cast of an unsigned long
ToUInt(a) == Word(a.hi, a.lo)

\* config.duty_val for --duty <arg>
ParseDuty(arg, lp64) ==
  IF arg.percent
    THEN WordOr(ToUInt(StrToUL(arg.num, lp64)), PWM_DUTY_PERCENT_FLAG)
    ELSE ToUInt(StrToUL(arg.num, lp64))

\* default duty: 50%
PWM_DUTY_DEFAULT == WordOr(Word(0, 50), PWM_DUTY_PERCENT_FLAG)

(* ----------------------------- duty encoder ---------------------------- *)

IsPercent(w) == (w.hi \div PWM_DUTY_PERCENT_FLAG.hi) % 2 = 1

\* the numeric part of a duty value (marker bit cleared)
DutyNum(w) == (w.hi % PWM_DUTY_PERCENT_FLAG.hi) * HALF + w.lo

DutyValid(w) ==
  IF IsPercent(w) THEN DutyNum(w) \in 1..100 ELSE DutyNum(w) \in 1..255

\* a * m / d, integer truncated, without an intermediate above a
MulDiv(a, m, d) == (a \div d) * m + ((a % d) * m) \div d

\* encode(value, period); only defined for a valid value
encode(w, period) ==
  IF IsPercent(w) THEN MulDiv(period, DutyNum(w), 100)
                  ELSE MulDiv(period, DutyNum(w), 255)

(* ------------------------------- inputs -------------------------------- *)

Num(t, h, l) == [top |-> t, hi |-> h, lo |-> l]

Letters == {"f", "d", "u", "D", "k", "x"}

Recognized == {"f", "d", "u", "D", "k"}

ScriptArgs ==
  UNION {[1..m -> Letters] : m \in 0..MaxScriptLen}
    \cup {<<"f", "d", "x">>, <<"f", "d", "u">>, <<"f", "D", "u">>}

FreqArgs == {2000}

DurationArgs == {0, 100}

\* --duty arguments: the number typed and whether it ends in '%'
DutyArgs ==
  {[num |-> Num(0, 0, 0), percent |-> FALSE],
   [num |-> Num(0, 0, 128), percent |-> FALSE],
   [num |-> Num(0, 0, 256), percent |-> FALSE],
   [num |-> Num(0, 32768, 50), percent |-> FALSE],
   [num |-> Num(1, 0, 50), percent |-> FALSE],
   [num |-> Num(0, 0, 0), percent |-> TRUE],
   [num |-> Num(0, 0, 100), percent |-> TRUE],
   [num |-> Num(0, 0, 101), percent |-> TRUE]}

\* the number a --duty argument denotes
InRangeArg(arg) ==
  /\ arg.num.top = 0
  /\ arg.num.hi = 0
  /\ IF arg.percent THEN arg.num.lo \in 1..100 ELSE arg.num.lo \in 1..255

\* an option that was not given is <<>>, one given with value v is <<v>>
None == <<>>

Some(set) == {<<v>> : v \in set}

\* the channel as a previous run may have left it: never exported, or kept
\* enabled at 500 Hz with a 100% duty cycle
FreshHw == [exported |-> FALSE, period |-> 0, duty_cycle |-> 0, enabled |-> FALSE]

PriorHw == [exported |-> TRUE, period |-> 2000000, duty_cycle |-> 2000000, enabled |-> TRUE]

(* ------------------------------- state --------------------------------- *)

VARIABLES
  argv,          \* the options given on the command line
  config,        \* static config_t config
  exit_flag,     \* static int exit_flag
  handler,       \* TRUE once signal(SIGINT, handle_signal) has run
  atexit_set,    \* TRUE once atexit(cleanup) has run
  script_freed,  \* cleanup() has released config.script
  pc,            \* position of main
  ret,           \* pwm_status_t ret of main
  pwm,           \* pwm_t pwm, the device handle
  xcfg,          \* pwm_execute_config
  hw,            \* the channel's control attributes
  calls,         \* device calls issued so far, in order
  ipc,           \* position of the interpreter inside pwm_execute
  ip,            \* index of the current command letter
  remaining,     \* milliseconds left of the current D wait
  err_letter,    \* the letter of an UnknownCommand failure
  exit_code,     \* the process exit status, -1 while running
  hist           \* observations of the run used to state properties

vars ==
  <<argv, config, exit_flag, handler, atexit_set, script_freed, pc, ret, pwm,
    xcfg, hw, calls, ipc, ip, remaining, err_letter, exit_code, hist>>

InitHist ==
  [opened |-> FALSE, execCount |-> 0, closeCount |-> 0, closeCalls |-> <<>>,
   trace |-> <<>>, flagAtEntry |-> 0, flagAtStep |-> 0, sigInWait |-> FALSE,
   sleepsAfterSig |-> 0, ioFailed |-> FALSE, hwAtEntry |-> FreshHw,
   hwAtReturn |-> FreshHw, callsAtEntry |-> 0, openStatus |-> PWM_E_OK,
   fail |-> PWM_E_OK]

Init ==
  /\ argv = [frequency |-> None, duration |-> None, duty |-> None,
             script |-> None, keep |-> FALSE]
  /\ config = [frequency_hz |-> DEFAULT_PWM_FREQUENCY_HZ,
               duration_ms |-> DEFAULT_PWM_DURATION_MS,
               duty_val |-> PWM_DUTY_DEFAULT,
               keep_enabled |-> FALSE,
               script |-> NULL]
  /\ exit_flag = 0
  /\ handler = FALSE
  /\ atexit_set = FALSE
  /\ script_freed = FALSE
  /\ pc = "parse"
  /\ ret = PWM_E_OK
  /\ pwm = [open |-> FALSE, keep_enabled |-> FALSE]
  /\ xcfg = [script |-> NULL, default_frequency_hz |-> 0,
             default_duration_ms |-> 0, default_duty_val |-> Word(0, 0)]
  /\ hw \in {FreshHw, PriorHw}
  /\ calls = <<>>
  /\ ipc = "idle"
  /\ ip = 1
  /\ remaining = 0
  /\ err_letter = ""
  /\ exit_code = -1
  /\ hist = InitHist

(* ----------------------------- front end ------------------------------- *)

\* exit(status) / return from main: the low 8 bits reach the parent, and
\* the atexit handler cleanup() frees the script
ExitStatus(status) == status % 256

Exit(status) ==
  /\ exit_code' = ExitStatus(status)
  /\ script_freed' = (atexit_set /\ config.script # NULL)
  /\ pc' = "done"

\* parse_cli_args(): every option read, return 0
ParseCliArgs ==
  /\ pc = "parse"
  /\ \E f \in Some(FreqArgs) \cup {None}, d \in Some(DurationArgs) \cup {None},
        D \in Some(DutyArgs) \cup {None}, s \in Some(ScriptArgs) \cup {None},
        k \in BOOLEAN, lp64 \in BOOLEAN :
       /\ argv' = [frequency |-> f, duration |-> d, duty |-> D,
                   script |-> s, keep |-> k]
       /\ config' =
            [frequency_hz |-> IF f = None THEN config.frequency_hz ELSE f[1],
             duration_ms |-> IF d = None THEN config.duration_ms ELSE d[1],
             duty_val |-> IF D = None THEN config.duty_val ELSE ParseDuty(D[1], lp64),
             keep_enabled |-> IF k THEN TRUE ELSE config.keep_enabled,
             script |-> IF s = None THEN config.script ELSE s[1]]
  /\ pc' = "atexit"
  /\ UNCHANGED <<exit_flag, handler, atexit_set, script_freed, ret, pwm, xcfg,
                 hw, calls, ipc, ip, remaining, err_letter, exit_code, hist>>

\* parse_cli_args(): invalid option, main shows the usage and returns EINVAL
ParseCliArgsInvalid ==
  /\ pc = "parse"
  /\ Exit(EINVAL)
  /\ UNCHANGED <<argv, config, exit_flag, handler, atexit_set, ret, pwm, xcfg,
                 hw, calls, ipc, ip, remaining, err_letter, hist>>

\* parse_cli_args(): --help and --version print and exit(0)
ParseCliArgsHelp ==
  /\ pc = "parse"
  /\ Exit(0)
  /\ UNCHANGED <<argv, config, exit_flag, handler, atexit_set, ret, pwm, xcfg,
                 hw, calls, ipc, ip, remaining, err_letter, hist>>

\* parse_cli_args(): strdup of the script fails, exit(-ENOMEM)
ParseCliArgsNoMem ==
  /\ pc = "parse"
  /\ Exit(-ENOMEM)
  /\ UNCHANGED <<argv, config, exit_flag, handler, atexit_set, ret, pwm, xcfg,
                 hw, calls, ipc, ip, remaining, err_letter, hist>>

\* atexit(cleanup)
MainAtexit ==
  /\ pc = "atexit"
  /\ atexit_set' = TRUE
  /\ pc' = "signal"
  /\ UNCHANGED <<argv, config, exit_flag, handler, script_freed, ret, pwm, xcfg,
                 hw, calls, ipc, ip, remaining, err_letter, exit_code, hist>>

\* main without the handler registration
MainSignal_skipped ==
  /\ pc = "signal"
  /\ pc' = "open"
  /\ UNCHANGED <<argv, config, exit_flag, handler, atexit_set, script_freed,
                 ret, pwm, xcfg, hw, calls, ipc, ip, remaining, err_letter,
                 exit_code, hist>>

\* signal(SIGINT, handle_signal)
MainSignal ==
  /\ pc = "signal"
  /\ handler' = TRUE
  /\ pc' = "open"
  /\ UNCHANGED <<argv, config, exit_flag, atexit_set, script_freed, ret, pwm,
                 xcfg, hw, calls, ipc, ip, remaining, err_letter, exit_code, hist>>

\* handle_signal() leaving the flag alone
handle_signal_noop(flag) == flag

\* handle_signal(): exit_flag = 1
handle_signal(flag) == 1

\* delivery of SIGINT: the default action ends the process until the handler
\* is installed, afterwards handle_signal runs.  The handler stays installed
\* after a delivery (signal() of the Linux C libraries) and the plain int
\* exit_flag is re-read from memory at every poll, the polls being separated
\* by calls into the C library.
SigInt ==
  /\ pc \notin {"done", "killed"}
  /\ IF handler
       THEN /\ exit_flag' = handle_signal(exit_flag)
            /\ hist' = [hist EXCEPT !.sigInWait = @ \/ ipc = "wait"]
            /\ pc' = pc
       ELSE /\ pc' = "killed"
            /\ UNCHANGED <<exit_flag, hist>>
  /\ UNCHANGED <<argv, config, handler, atexit_set, script_freed, ret, pwm,
                 xcfg, hw, calls, ipc, ip, remaining, err_letter, exit_code>>

(* ---------------------------- device handle ---------------------------- *)

\* pwm_open(chip, channel, PWM_FLAG_EXPORT): the channel is exported unless a
\* previous run left it exported
pwm_open_calls(h) == IF h.exported THEN <<>> ELSE << <<"export">> >>

pwm_open_hw(h) == [h EXCEPT !.exported = TRUE]

\* set_frequency(hz): period = 1e9 / hz
set_frequency(h, hz) == [h EXCEPT !.period = NSEC_PER_SEC \div hz]

set_duty(h, duty) == [h EXCEPT !.duty_cycle = duty]

enable(h) == [h EXCEPT !.enabled = TRUE]

\* close(keep_enabled): disable and unexport unless the channel is kept
pwm_close_calls(keep) ==
  IF keep THEN <<>> ELSE << <<"disable">>, <<"unexport">> >>

pwm_close_hw(h, keep) ==
  IF keep THEN h ELSE [h EXCEPT !.enabled = FALSE, !.exported = FALSE]

(* -------------------------------- main --------------------------------- *)

\* ret = pwm_open(...) returns PWM_E_OK
MainOpen ==
  /\ pc = "open"
  /\ ret' = PWM_E_OK
  /\ hw' = pwm_open_hw(hw)
  /\ calls' = calls \o pwm_open_calls(hw)
  /\ pwm' = [open |-> TRUE, keep_enabled |-> FALSE]
  /\ hist' = [hist EXCEPT !.opened = TRUE]
  /\ pc' = "config"
  /\ UNCHANGED <<argv, config, exit_flag, handler, atexit_set, script_freed,
                 xcfg, ipc, ip, remaining, err_letter, exit_code>>

\* ret = pwm_open(...) fails: the message is printed and exit(ret)
MainOpenFail ==
  /\ pc = "open"
  /\ \E st \in OpenFailures :
       /\ ret' = st
       /\ hist' = [hist EXCEPT !.openStatus = st]
       /\ Exit(st)
  /\ UNCHANGED <<argv, config, exit_flag, handler, atexit_set, pwm, xcfg, hw,
                 calls, ipc, ip, remaining, err_letter>>

\* the fallback with its two branches exchanged
DefaultScript_swapped(keep_enabled) ==
  IF keep_enabled THEN <<"f", "d", "u">> ELSE <<"f", "d", "u", "k">>

\* the fallback enabling the output before the duty is applied
DefaultScript_reordered(keep_enabled) ==
  IF keep_enabled THEN <<"f", "u", "d", "k">> ELSE <<"f", "u", "d">>

\* the script main falls back to when --script was not given
DefaultScript(keep_enabled) ==
  IF keep_enabled THEN <<"f", "d", "u", "k">> ELSE <<"f", "d", "u">>

\* main overriding a script given with --script by the fallback
MainConfig_override ==
  /\ pc = "config"
  /\ xcfg' = [script |-> DefaultScript(config.keep_enabled),
              default_frequency_hz |-> config.frequency_hz,
              default_duration_ms |-> config.duration_ms,
              default_duty_val |-> config.duty_val]
  /\ pc' = "execute"
  /\ UNCHANGED <<argv, config, exit_flag, handler, atexit_set, script_freed,
                 ret, pwm, hw, calls, ipc, ip, remaining, err_letter,
                 exit_code, hist>>

\* pwm_execute_config and its script fallback
MainConfig ==
  /\ pc = "config"
  /\ xcfg' = [script |-> IF config.script = NULL
                           THEN DefaultScript(config.keep_enabled)
                           ELSE config.script,
              default_frequency_hz |-> config.frequency_hz,
              default_duration_ms |-> config.duration_ms,
              default_duty_val |-> config.duty_val]
  /\ pc' = "execute"
  /\ UNCHANGED <<argv, config, exit_flag, handler, atexit_set, script_freed,
                 ret, pwm, hw, calls, ipc, ip, remaining, err_letter,
                 exit_code, hist>>

\* the call ret = pwm_execute(&pwm, &pwm_execute_config)
MainExecute ==
  /\ pc = "execute"
  /\ pc' = "in_execute"
  /\ ipc' = "check"
  /\ ip' = 1
  /\ hist' = [hist EXCEPT !.execCount = @ + 1, !.flagAtEntry = exit_flag,
                          !.hwAtEntry = hw, !.callsAtEntry = Len(calls)]
  /\ UNCHANGED <<argv, config, exit_flag, handler, atexit_set, script_freed,
                 ret, pwm, xcfg, hw, calls, remaining, err_letter, exit_code>>

\* pwm_close(&pwm)
MainClose ==
  /\ pc = "close"
  /\ calls' = calls \o pwm_close_calls(pwm.keep_enabled)
  /\ hw' = pwm_close_hw(hw, pwm.keep_enabled)
  /\ pwm' = [pwm EXCEPT !.open = FALSE]
  /\ hist' = [hist EXCEPT !.closeCount = @ + 1,
                          !.closeCalls = pwm_close_calls(pwm.keep_enabled)]
  /\ pc' = "exit"
  /\ UNCHANGED <<argv, config, exit_flag, handler, atexit_set, script_freed,
                 ret, xcfg, ipc, ip, remaining, err_letter, exit_code>>

\* main ending with EXIT_FAILURE for every status but PWM_E_OK
MainExit_failure ==
  /\ pc = "exit"
  /\ Exit(IF ret = PWM_E_OK THEN 0 ELSE 1)
  /\ UNCHANGED <<argv, config, exit_flag, handler, atexit_set, ret, pwm, xcfg,
                 hw, calls, ipc, ip, remaining, err_letter, hist>>

\* exit(ret)
MainExit ==
  /\ pc = "exit"
  /\ Exit(ret)
  /\ UNCHANGED <<argv, config, exit_flag, handler, atexit_set, ret, pwm, xcfg,
                 hw, calls, ipc, ip, remaining, err_letter, hist>>

(* ------------------------- script interpreter -------------------------- *)

\* a stop flag that is not wired to exit_flag
StopFlag_unwired == FALSE

\* *config->stop_flag, where stop_flag = &exit_flag
StopFlag == exit_flag # 0

\* pwm_execute returns status to main
Return(status) ==
  /\ ret' = status
  /\ ipc' = "idle"
  /\ pc' = "close"

\* move to the next command letter
Advance ==
  /\ ip' = ip + 1
  /\ ipc' = "check"
  /\ UNCHANGED <<pc, ret>>

Running == pc = "in_execute"

Letter == xcfg.script[ip]

\* the stop signal is set when a step begins: abort, "interrupted"
ExecStop ==
  /\ Running /\ ipc = "check"
  /\ StopFlag
  /\ Return(E_Interrupted)
  /\ hist' = [hist EXCEPT !.hwAtReturn = hw]
  /\ UNCHANGED <<argv, config, exit_flag, handler, atexit_set, script_freed,
                 pwm, xcfg, hw, calls, ip, remaining, err_letter, exit_code>>

\* the script is exhausted: success
ExecDone ==
  /\ Running /\ ipc = "check"
  /\ ~StopFlag
  /\ ip > Len(xcfg.script)
  /\ Return(PWM_E_OK)
  /\ hist' = [hist EXCEPT !.hwAtReturn = hw]
  /\ UNCHANGED <<argv, config, exit_flag, handler, atexit_set, script_freed,
                 pwm, xcfg, hw, calls, ip, remaining, err_letter, exit_code>>

\* the step begins: the next letter is taken
ExecFetch ==
  /\ Running /\ ipc = "check"
  /\ ~StopFlag
  /\ ip <= Len(xcfg.script)
  /\ ipc' = "exec"
  /\ hist' = [hist EXCEPT !.flagAtStep = exit_flag]
  /\ UNCHANGED <<argv, config, exit_flag, handler, atexit_set, script_freed,
                 pc, ret, pwm, xcfg, hw, calls, ip, remaining, err_letter,
                 exit_code>>

\* a device write: it takes effect and the script goes on, or it fails with
\* IoError and the script is aborted with the hardware left as it is
DeviceWrite(call, newHw) ==
  /\ calls' = Append(calls, call)
  /\ \E ok \in BOOLEAN :
       IF ok
         THEN /\ hw' = newHw
              /\ Advance
              /\ hist' = [hist EXCEPT !.trace = Append(@, Letter)]
         ELSE /\ hw' = hw
              /\ ip' = ip
              /\ Return(E_IoError)
              /\ hist' = [hist EXCEPT !.trace = Append(@, Letter),
                                      !.ioFailed = TRUE, !.hwAtReturn = hw,
                                      !.fail = E_IoError]

\* f: apply the default frequency
CmdF ==
  /\ Running /\ ipc = "exec" /\ Letter = "f"
  /\ DeviceWrite(<<"set_frequency", xcfg.default_frequency_hz>>,
                 set_frequency(hw, xcfg.default_frequency_hz))
  /\ UNCHANGED <<argv, config, exit_flag, handler, atexit_set, script_freed,
                 pwm, xcfg, remaining, err_letter, exit_code>>

\* d: apply the default duty through the encoder
CmdD ==
  /\ Running /\ ipc = "exec" /\ Letter = "d"
  /\ IF DutyValid(xcfg.default_duty_val)
       THEN DeviceWrite(<<"set_duty", encode(xcfg.default_duty_val, hw.period)>>,
                        set_duty(hw, encode(xcfg.default_duty_val, hw.period)))
       ELSE /\ Return(E_InvalidDutyRange)
            /\ hist' = [hist EXCEPT !.trace = Append(@, Letter),
                                    !.hwAtReturn = hw,
                                    !.fail = E_InvalidDutyRange]
            /\ UNCHANGED <<hw, calls, ip>>
  /\ UNCHANGED <<argv, config, exit_flag, handler, atexit_set, script_freed,
                 pwm, xcfg, remaining, err_letter, exit_code>>

\* u: enable the output
CmdU ==
  /\ Running /\ ipc = "exec" /\ Letter = "u"
  /\ DeviceWrite(<<"enable">>, enable(hw))
  /\ UNCHANGED <<argv, config, exit_flag, handler, atexit_set, script_freed,
                 pwm, xcfg, remaining, err_letter, exit_code>>

\* D: start the polled wait for the default duration
CmdWait ==
  /\ Running /\ ipc = "exec" /\ Letter = "D"
  /\ remaining' = xcfg.default_duration_ms
  /\ ipc' = "wait"
  /\ hist' = [hist EXCEPT !.trace = Append(@, Letter)]
  /\ UNCHANGED <<argv, config, exit_flag, handler, atexit_set, script_freed,
                 pc, ret, pwm, xcfg, hw, calls, ip, err_letter, exit_code>>

\* one poll of the wait: stop signal set, "interrupted"
WaitStop ==
  /\ Running /\ ipc = "wait"
  /\ StopFlag
  /\ Return(E_Interrupted)
  /\ hist' = [hist EXCEPT !.hwAtReturn = hw]
  /\ UNCHANGED <<argv, config, exit_flag, handler, atexit_set, script_freed,
                 pwm, xcfg, hw, calls, ip, remaining, err_letter, exit_code>>

\* one poll of the wait: sleep one tick, or less at the end
WaitTick ==
  /\ Running /\ ipc = "wait"
  /\ ~StopFlag
  /\ remaining > 0
  /\ remaining' = IF remaining > PollTickMs THEN remaining - PollTickMs ELSE 0
  /\ hist' = [hist EXCEPT !.sleepsAfterSig =
                            IF hist.sigInWait /\ @ < 2 THEN @ + 1 ELSE @]
  /\ UNCHANGED <<argv, config, exit_flag, handler, atexit_set, script_freed,
                 pc, ret, pwm, xcfg, hw, calls, ipc, ip, err_letter, exit_code>>

\* one poll of the wait: the duration has elapsed
WaitDone ==
  /\ Running /\ ipc = "wait"
  /\ ~StopFlag
  /\ remaining = 0
  /\ Advance
  /\ UNCHANGED <<argv, config, exit_flag, handler, atexit_set, script_freed,
                 pwm, xcfg, hw, calls, remaining, err_letter, exit_code, hist>>

\* k: no device call.  main calls pwm_close(&pwm) without a keep_enabled
\* argument, so the marker in the script is the only way the choice reaches
\* the handle: k marks the handle to be left enabled by close
CmdK ==
  /\ Running /\ ipc = "exec" /\ Letter = "k"
  /\ pwm' = [pwm EXCEPT !.keep_enabled = TRUE]
  /\ Advance
  /\ hist' = [hist EXCEPT !.trace = Append(@, Letter)]
  /\ UNCHANGED <<argv, config, exit_flag, handler, atexit_set, script_freed,
                 xcfg, hw, calls, remaining, err_letter, exit_code>>

\* any other letter: UnknownCommand(letter), the rest of the script is dropped
CmdUnknown ==
  /\ Running /\ ipc = "exec" /\ Letter \notin Recognized
  /\ err_letter' = Letter
  /\ Return(E_UnknownCommand)
  /\ hist' = [hist EXCEPT !.hwAtReturn = hw, !.fail = E_UnknownCommand]
  /\ UNCHANGED <<argv, config, exit_flag, handler, atexit_set, script_freed,
                 pwm, xcfg, hw, calls, ip, remaining, exit_code>>

(* ---------------------------- specification ---------------------------- *)

Next ==
  \/ ParseCliArgs
  \/ ParseCliArgsInvalid
  \/ ParseCliArgsHelp
  \/ ParseCliArgsNoMem
  \/ MainAtexit
  \/ MainSignal
  \/ SigInt
  \/ MainOpen
  \/ MainOpenFail
  \/ MainConfig
  \/ MainExecute
  \/ ExecStop
  \/ ExecDone
  \/ ExecFetch
  \/ CmdF
  \/ CmdD
  \/ CmdU
  \/ CmdWait
  \/ WaitStop
  \/ WaitTick
  \/ WaitDone
  \/ CmdK
  \/ CmdUnknown
  \/ MainClose
  \/ MainExit

Spec == Init /\ [][Next]_vars

(* ----------------------------- properties ------------------------------ *)

\* pwm_execute has returned and pwm_close has not run yet
JustReturned == pc = "close"

\* the device calls issued by the interpreter
ExecCalls ==
  SubSeq(calls, hist.callsAtEntry + 1, Len(calls) - Len(hist.closeCalls))

\* no SIGINT was handled before the interpreter returned
NoInterrupt == exit_flag = 0

\* C1: when pwm_open succeeds, pwm_execute is called exactly once, pwm_close
\* exactly once after it has returned whatever its status, the process ends
\* only after the close, and SIGINT never ends the process once the channel
\* is open
C1_ExecuteThenCloseThenExit ==
  /\ hist.execCount <= 1
  /\ hist.closeCount <= 1
  /\ hist.execCount = 1 => hist.opened
  /\ hist.closeCount = 1 =>
       hist.execCount = 1 /\ ipc = "idle" /\ pc \in {"exit", "done"}
  /\ pc \in {"exit", "done"} /\ hist.opened =>
       hist.execCount = 1 /\ hist.closeCount = 1 /\ ~pwm.open
  /\ pc = "killed" => ~hist.opened

C1_Witness ==
  /\ pc = "done"
  /\ hist.opened
  /\ exit_flag = 1
  /\ ret = E_Interrupted
  /\ hist.closeCount = 1

C3_ScriptPassed ==
  hist.execCount = 1 =>
    /\ xcfg.script # NULL
    /\ argv.script # None => xcfg.script = argv.script[1]
    /\ argv.script = None /\ argv.keep => xcfg.script = <<"f", "d", "u", "k">>
    /\ argv.script = None /\ ~argv.keep => xcfg.script = <<"f", "d", "u">>

C3_Witness ==
  /\ hist.execCount = 1
  /\ argv.script = None
  /\ argv.keep
  /\ xcfg.script = <<"f", "d", "u", "k">>

\* C4: pwm_close disables and unexports the channel exactly when
\* --keep-enabled was not given, and otherwise leaves the channel as the
\* interpreter left it
C4_CloseIffNotKeepEnabled ==
  hist.closeCount = 1 =>
    /\ hist.closeCalls = << <<"disable">>, <<"unexport">> >> <=> ~argv.keep
    /\ argv.keep => hist.closeCalls = <<>> /\ hw = hist.hwAtReturn

\* the calls "fdu" and "fduk" are to issue
DefaultCalls ==
  << <<"set_frequency", config.frequency_hz>>,
     <<"set_duty", encode(config.duty_val, NSEC_PER_SEC \div config.frequency_hz)>>,
     <<"enable">> >>

\* C5 as claimed: with no interrupt and no device failure the default scripts
\* issue exactly set_frequency, set_duty, enable
C5_DefaultScriptCalls_Claimed ==
  JustReturned /\ argv.script = None /\ NoInterrupt /\ ~hist.ioFailed =>
    /\ ExecCalls = DefaultCalls
    /\ ret = PWM_E_OK

\* C5: with no interrupt, no device failure and a default duty value in range,
\* "fdu" and "fduk" issue exactly set_frequency(default frequency),
\* set_duty(encoded default duty), enable, in this order and nothing else;
\* 'k' issues no call and is no error
C5_DefaultScriptCalls ==
  JustReturned /\ argv.script = None /\ NoInterrupt /\ ~hist.ioFailed
    /\ DutyValid(config.duty_val) =>
    /\ ExecCalls = DefaultCalls
    /\ hist.trace = xcfg.script
    /\ ret = PWM_E_OK

C5_Witness ==
  /\ JustReturned
  /\ argv.script = None
  /\ argv.keep
  /\ argv.frequency # None
  /\ NoInterrupt
  /\ ret = PWM_E_OK
  /\ Len(ExecCalls) = 3
  /\ hist.trace = <<"f", "d", "u", "k">>

\* C6: a command is executed only if the stop flag was clear when its step
\* began; a step that begins with the flag set executes nothing and makes the
\* interpreter return "interrupted"; with the flag set before the first step
\* no command is executed at all
C6_StopCheckedBeforeEveryCommand ==
  /\ [](ipc = "exec" => hist.flagAtStep = 0)
  /\ [](JustReturned /\ hist.flagAtEntry = 1 =>
          /\ ret = E_Interrupted
          /\ hist.trace = <<>>
          /\ ExecCalls = <<>>)
  /\ [][pc = "in_execute" /\ ipc = "check" /\ exit_flag = 1 /\ ipc' # "check" =>
          /\ pc' = "close"
          /\ ret' = E_Interrupted
          /\ ret' \notin ErrorKinds \cup {PWM_E_OK}
          /\ hist'.trace = hist.trace
          /\ calls' = calls]_vars

C6_Witness ==
  /\ JustReturned
  /\ hist.flagAtEntry = 1
  /\ ret = E_Interrupted
  /\ hist.trace = <<>>
  /\ Len(xcfg.script) > 0

\* C7: once SIGINT has arrived during a D wait no further tick is slept, the
\* steps after the D are skipped and the interpreter returns "interrupted"
C7_WaitInterruptedWithinOneTick ==
  /\ hist.sleepsAfterSig = 0
  /\ JustReturned /\ hist.sigInWait =>
       /\ ret = E_Interrupted
       /\ xcfg.script[ip] = "D"
       /\ hist.trace = SubSeq(xcfg.script, 1, ip)

C7_Witness ==
  /\ JustReturned
  /\ hist.sigInWait
  /\ ret = E_Interrupted
  /\ remaining > PollTickMs
  /\ ip < Len(xcfg.script)

\* position of the first unrecognized letter of a script, 0 if there is none
FirstUnknown(s) ==
  IF \A i \in 1..Len(s) : s[i] \in Recognized
    THEN 0
    ELSE CHOOSE i \in 1..Len(s) :
           /\ s[i] \notin Recognized
           /\ \A j \in 1..(i - 1) : s[j] \in Recognized

\* the channel after the commands s have all taken effect on h
RECURSIVE HwAfter(_, _)
HwAfter(h, s) ==
  IF s = <<>> THEN h
  ELSE LET c == Head(s)
           h1 == CASE c = "f" -> set_frequency(h, config.frequency_hz)
                   [] c = "d" -> set_duty(h, encode(config.duty_val, h.period))
                   [] c = "u" -> enable(h)
                   [] OTHER -> h
       IN  HwAfter(h1, Tail(s))

\* the result claimed for a script with an unrecognized letter at position i
UnknownOutcome(s, i) ==
  /\ ret = E_UnknownCommand
  /\ err_letter = s[i]
  /\ hist.trace = SubSeq(s, 1, i - 1)
  /\ hw = HwAfter(hist.hwAtEntry, SubSeq(s, 1, i - 1))

C10_DutyRangeEnforced ==
  JustReturned /\ argv.duty # None /\ "d" \in {hist.trace[i] : i \in 1..Len(hist.trace)} =>
    IF InRangeArg(argv.duty[1])
      THEN ret # E_InvalidDutyRange
      ELSE /\ ret = E_InvalidDutyRange
           /\ \A i \in 1..Len(ExecCalls) : ExecCalls[i][1] # "set_duty"

TypeOK ==
  /\ exit_flag \in {0, 1}
  /\ pc \in {"parse", "atexit", "signal", "open", "config", "execute",
             "in_execute", "close", "exit", "done", "killed"}
  /\ ipc \in {"idle", "check", "exec", "wait"}

=============================================================================
